---- MODULE Spec2Model ----
(***************************************************************************)
(* Himalayan Sentinel: the avalanche alert log.                            *)
(*                                                                         *)
(* The repository holds two AvalancheView components: the one App mounts   *)
(* (components/AvalancheView.tsx) and a second copy appended to            *)
(* components/TerrainView.tsx.  Both keep an alert threshold, an audience, *)
(* the AI response state and the alert history in component state, and     *)
(* both log one AlertLogEntry when the request of handleAnalysis resolves. *)
(* They differ in how the entry's riskLevel is derived.                    *)
(*                                                                         *)
(* Spec      : one mounted AvalancheView over its hardcoded sector data.   *)
(* SpecBuild : the log-entry computation of handleAnalysis applied to      *)
(*             bounded, arbitrary readings, thresholds and audiences.      *)
(* SpecTerrain : TerrainView, whose analysis starts on a change of the     *)
(*             selected point of interest and on the panel's button.       *)
(* SpecManual : the views whose analysis starts on the Generate Insight    *)
(*             button only, with every request eventually settling.        *)
(* SpecService : interleaved calls of the two insight functions.           *)
(* SpecApp   : the connectivity modal of App and its handshake timer.      *)
(* SpecDash  : the side panel of the Dashboard: zone selection, its reset  *)
(*             effect and the analysis handlers.                           *)
(***************************************************************************)
EXTENDS Integers, Sequences, FiniteSets

VARIABLES
    view,            \* which component is mounted
    alertThreshold,  \* useState<number>(75)
    audience,        \* useState('researchers')
    aiState,         \* useState<AiResponse>
    history,         \* useState<AlertLogEntry[]>([])
    inflight,        \* suspended handleAnalysis calls: their closure and prompt
    now,             \* the wall clock read by Date.now() / new Date()
    sectorData,      \* the module-level readings array the component reads
    probe,           \* SpecBuild: the inputs of one log-entry computation
    probeLocals,     \* SpecBuild: affectedZones and maxRiskVal of that computation
    probeLog,        \* SpecBuild: the entry computed from probe (or <<>>)
    probeColors,     \* SpecBuild: getRiskColor of every reading of probe
    selectedPoi,     \* TerrainView: useState<Poi | null>(null), as the poi's id
    terrainAi,       \* TerrainView: useState<AiResponse>
    terrainInflight, \* TerrainView: suspended handleAnalyze calls, by poi
    terrainShown,    \* TerrainView: the poi whose request produced the markdown
    panelView,       \* SpecManual: the mounted view with a Generate Insight button
    panelAi,         \* SpecManual: that view's useState<AiResponse>
    panelPending,    \* SpecManual: its suspended handleAnalysis calls
    panelCalled,     \* SpecManual: the handler that ran last
    dataContent,     \* DataLabView: useState<string>('')
    predictions,     \* GlacierView: useState of the parsed projections
    migrationPath,   \* EcosystemView: useState of the parsed path
    calls,           \* SpecService: the calls made to the insight functions
    wifiModalOpen,   \* App: useState(false)
    connectionStatus,\* App: useState('connected')
    currentNetwork,  \* App: useState('Sentinel-Sat-Link')
    selectedNetworkToConnect, \* App: useState<string | null>(null)
    password,        \* App: useState('')
    connectError,    \* App: useState('')
    handshakes,      \* App: pending setTimeout callbacks, by the ssid they captured
    selectedZone,    \* Dashboard: useState<RiskZone | null>(null), as the zone's id
    viewMode,        \* Dashboard: useState('details')
    dashAi,          \* Dashboard: useState<AiResponse>
    dashInflight,    \* Dashboard: suspended analysis calls, by the zone of their prompt
    dashShown,       \* Dashboard: the zone whose request produced the markdown
    zoneEffectDue    \* Dashboard: the effect on [selectedZone] is due after this render

vars == <<view, alertThreshold, audience, aiState, history, inflight, now,
          sectorData, probe, probeLocals, probeLog, probeColors,
          selectedPoi, terrainAi, terrainInflight, terrainShown,
          panelView, panelAi, panelPending, panelCalled, dataContent,
          predictions, migrationPath, calls,
          wifiModalOpen, connectionStatus, currentNetwork,
          selectedNetworkToConnect, password, connectError, handshakes,
          selectedZone, viewMode, dashAi, dashInflight, dashShown, zoneEffectDue>>

viewVars == <<view, alertThreshold, audience, aiState, history, inflight, now,
              sectorData>>
probeVars == <<probe, probeLocals, probeLog, probeColors>>
terrainVars == <<selectedPoi, terrainAi, terrainInflight, terrainShown>>
manualVars == <<panelView, panelAi, panelPending, panelCalled, dataContent,
                predictions, migrationPath>>
serviceVars == <<calls>>
dashVars == <<selectedZone, viewMode, dashAi, dashInflight, dashShown, zoneEffectDue>>
appVars == <<wifiModalOpen, connectionStatus, currentNetwork,
             selectedNetworkToConnect, password, connectError, handshakes>>

----------------------------------------------------------------------------
(* Bounds *)

MaxHistory == 2      \* analyses triggered in one run of Spec
MaxClock == 1        \* clock values 0..MaxClock
MaxLen == 3          \* readings per snapshot in SpecBuild
ScoreMargin == 5     \* how far outside [0,100] SpecBuild draws a score
MaxInflight == 2     \* suspended calls of one view in SpecTerrain and SpecManual
MaxCalls == 3        \* calls made to the insight functions in SpecService

----------------------------------------------------------------------------
(* Program constants *)

SECTOR_DATA ==
    << [zone |-> "Rakhiot Face",  risk |-> 85],
       [zone |-> "Diamir Base",   risk |-> 45],
       [zone |-> "Rupal Face",    risk |-> 92],
       [zone |-> "Fairy Meadows", risk |-> 30],
       [zone |-> "Mazeno Ridge",  risk |-> 65] >>

riskData ==
    << [zone |-> "Rakhiot Face",  risk |-> 85],
       [zone |-> "Diamir Base",   risk |-> 45],
       [zone |-> "Rupal Face",    risk |-> 92],
       [zone |-> "Fairy Meadows", risk |-> 30],
       [zone |-> "Mazeno Ridge",  risk |-> 65] >>

Views == {"AvalancheView.tsx", "TerrainView.tsx"}

SectorReadings(v) == IF v = "AvalancheView.tsx" THEN SECTOR_DATA ELSE riskData

Audiences == {"researchers", "communities", "public"}

SliderMin == 0
SliderMax == 100
SliderStep == 5
SliderValues == {t \in SliderMin..SliderMax : (t - SliderMin) % SliderStep = 0}

MsPerSecond == 1000

----------------------------------------------------------------------------
(* Pure helpers *)

RECURSIVE FilterRisk(_, _)
\* readings.filter(z => z.risk > alertThreshold)
FilterRisk(readings, threshold) ==
    IF readings = <<>> THEN <<>>
    ELSE LET z == Head(readings)
             rest == FilterRisk(Tail(readings), threshold)
         IN  IF z.risk > threshold THEN <<z>> \o rest ELSE rest

\* readings.map(z => z.zone)
MapZone(readings) == [i \in 1..Len(readings) |-> readings[i].zone]

\* readings.map(z => z.risk)
MapRisk(readings) == [i \in 1..Len(readings) |-> readings[i].risk]

RECURSIVE MathMax(_, _)
\* Math.max(...values, floor)
MathMax(values, floor) ==
    IF values = <<>> THEN floor
    ELSE LET m == MathMax(Tail(values), floor)
         IN  IF Head(values) > m THEN Head(values) ELSE m

getRiskColor(val) ==
    IF val > 80 THEN "#ef4444"
    ELSE IF val > 50 THEN "#f59e0b"
    ELSE "#10b981"

\* variant: the Critical bound taken inclusive
RiskLevelOf_inclusive(maxRiskVal) ==
    IF maxRiskVal >= 80 THEN "Critical"
    ELSE IF maxRiskVal > 50 THEN "High"
    ELSE "Low"

\* variant: the Critical bucket closed at 100
RiskLevelOf_ranged(maxRiskVal) ==
    IF maxRiskVal > 80 /\ maxRiskVal <= 100 THEN "Critical"
    ELSE IF maxRiskVal > 50 THEN "High"
    ELSE "Low"

\* AvalancheView.tsx: maxRiskVal > 80 ? 'Critical' : maxRiskVal > 50 ? 'High' : 'Low'
RiskLevelOf(maxRiskVal) ==
    IF maxRiskVal > 80 THEN "Critical"
    ELSE IF maxRiskVal > 50 THEN "High"
    ELSE "Low"

\* TerrainView.tsx: let riskLevel = 'Low'; if ... else if ... else if ...
RiskLevelTerrain(maxRiskVal, affectedZones) ==
    IF maxRiskVal > 80 THEN "Critical"
    ELSE IF maxRiskVal > 50 THEN "High"
    ELSE IF Len(affectedZones) > 0 THEN "Moderate"
    ELSE "Low"

\* audience.toUpperCase()
ToUpperCase(a) ==
    CASE a = "researchers" -> "RESEARCHERS"
      [] a = "communities" -> "COMMUNITIES"
      [] a = "public"      -> "PUBLIC"

\* new Date().toLocaleString(): the clock value to the second
ToLocaleString(t) == t \div MsPerSecond

\* variant: z.risk >= alertThreshold (scores and thresholds are integers here)
AffectedZones_inclusive(readings, threshold) ==
    MapZone(FilterRisk(readings, threshold - 1))

\* const affectedZones = ....filter(z => z.risk > alertThreshold).map(z => z.zone)
AffectedZones(readings, threshold) == MapZone(FilterRisk(readings, threshold))

\* variant: Math.max(...risks) without the 0; -Infinity on an empty list
MaxRiskValAvalanche_nofloor(readings) ==
    IF readings = <<>> THEN -1000000
    ELSE MathMax(Tail(MapRisk(readings)), Head(MapRisk(readings)))

\* AvalancheView.tsx: Math.max(...SECTOR_DATA.map(z => z.risk), 0)
MaxRiskValAvalanche(readings) == MathMax(MapRisk(readings), 0)

\* variant: the maximum over all readings, as AvalancheView.tsx takes it
MaxRiskValTerrain_global(readings, threshold) ==
    MathMax(MapRisk(readings), 0)

\* TerrainView.tsx: Math.max(...riskData.filter(z => z.risk > alertThreshold).map(z => z.risk), 0)
MaxRiskValTerrain(readings, threshold) ==
    MathMax(MapRisk(FilterRisk(readings, threshold)), 0)

\* the locals of handleAnalysis after its await
Locals(v, readings, threshold) ==
    [ affectedZones |-> AffectedZones(readings, threshold),
      maxRiskVal    |-> IF v = "AvalancheView.tsx"
                        THEN MaxRiskValAvalanche(readings)
                        ELSE MaxRiskValTerrain(readings, threshold) ]

\* variant: the audience logged in the upper case the prompt uses
NewLogAvalanche_upper(readings, threshold, aud, result, t1, t2) ==
    [ id        |-> t1,
      timestamp |-> ToLocaleString(t2),
      zones     |-> AffectedZones(readings, threshold),
      riskLevel |-> RiskLevelOf(MaxRiskValAvalanche(readings)),
      message   |-> result,
      threshold |-> threshold,
      audience  |-> ToUpperCase(aud) ]

\* AvalancheView.tsx, handleAnalysis, "Log the alert"
NewLogAvalanche(readings, threshold, aud, result, t1, t2) ==
    LET affectedZones == AffectedZones(readings, threshold)
        maxRiskVal == MaxRiskValAvalanche(readings)
    IN  [ id        |-> t1,
          timestamp |-> ToLocaleString(t2),
          zones     |-> affectedZones,
          riskLevel |-> RiskLevelOf(maxRiskVal),
          message   |-> result,
          threshold |-> threshold,
          audience  |-> aud ]

\* TerrainView.tsx, handleAnalysis of its AvalancheView, "Log the alert"
NewLogTerrain(readings, threshold, aud, result, t1, t2) ==
    LET affectedZones == AffectedZones(readings, threshold)
        maxRiskVal == MaxRiskValTerrain(readings, threshold)
    IN  [ id        |-> t1,
          timestamp |-> ToLocaleString(t2),
          zones     |-> affectedZones,
          riskLevel |-> RiskLevelTerrain(maxRiskVal, affectedZones),
          message   |-> result,
          threshold |-> threshold,
          audience  |-> aud ]

\* variant: a public alert lists every sector, whatever the threshold
NewLog_byAudience(v, readings, threshold, aud, result, t1, t2) ==
    LET e == IF v = "AvalancheView.tsx"
             THEN NewLogAvalanche(readings, threshold, aud, result, t1, t2)
             ELSE NewLogTerrain(readings, threshold, aud, result, t1, t2)
    IN  IF aud = "public" THEN [e EXCEPT !.zones = MapZone(readings)] ELSE e

NewLog(v, readings, threshold, aud, result, t1, t2) ==
    IF v = "AvalancheView.tsx"
    THEN NewLogAvalanche(readings, threshold, aud, result, t1, t2)
    ELSE NewLogTerrain(readings, threshold, aud, result, t1, t2)

----------------------------------------------------------------------------
(* The text-generation service *)

\* what ai.models.generateContent does: resolve with a text, resolve with an
\* empty text, or reject
ApiOutcomes ==
    { [ok |-> TRUE,  text |-> "## Situational Analysis"],
      [ok |-> TRUE,  text |-> ""],
      [ok |-> FALSE, text |-> ""] }

generateDeepThinkingInsight(api) ==
    IF ~api.ok THEN "Error generating deep insight. Please check API Key."
    ELSE IF api.text = "" THEN "No deep analysis available."
    ELSE api.text

Results == {generateDeepThinkingInsight(api) : api \in ApiOutcomes}

generateStandardInsight(api) ==
    IF ~api.ok THEN "Error generating standard insight. Please check API Key."
    ELSE IF api.text = "" THEN "No analysis available."
    ELSE api.text

InsightFunctions == {"generateStandardInsight", "generateDeepThinkingInsight"}

\* variant: the catch block logs the error and throws it again
Settlement_rethrow(fn, api) ==
    IF ~api.ok THEN [state |-> "rejected", value |-> ""]
    ELSE [ state |-> "fulfilled",
           value |-> IF fn = "generateStandardInsight"
                     THEN generateStandardInsight(api)
                     ELSE generateDeepThinkingInsight(api) ]

\* how the promise returned by insight function fn settles when the API call
\* inside its try block ends with api: both branches return a string
Settlement(fn, api) ==
    [ state |-> "fulfilled",
      value |-> IF fn = "generateStandardInsight"
                THEN generateStandardInsight(api)
                ELSE generateDeepThinkingInsight(api) ]

\* the prompt handleAnalysis assembles from the values of its render
Prompt(v, threshold, aud) ==
    IF v = "AvalancheView.tsx"
    THEN [ data            |-> SECTOR_DATA,
           threshold       |-> threshold,
           audience        |-> ToUpperCase(aud),
           includeAdvisory |-> FALSE ]
    ELSE LET risks == MapRisk(riskData)
             \* Math.max(...) of the non-empty riskData
             currentMaxRisk == MathMax(Tail(risks), Head(risks))
             isHighRisk == currentMaxRisk > 50
         IN  [ data            |-> riskData,
               threshold       |-> threshold,
               audience        |-> ToUpperCase(aud),
               includeAdvisory |-> (aud = "public" /\ isHighRisk) ]

----------------------------------------------------------------------------
(* The mounted AvalancheView *)

\* the slider positions a run tries: the initial one and one above every
\* sector's risk
ThresholdChoices == {t \in SliderValues : t \in {75, 95}}

\* the response state every view starts with
IdleAi == [markdown |-> "", loading |-> FALSE, isThinking |-> FALSE]

InitView ==
    /\ view \in Views
    /\ alertThreshold = 75
    /\ audience = "researchers"
    /\ aiState = IdleAi
    /\ history = <<>>
    /\ inflight = <<>>
    /\ now = 0
    /\ sectorData = SectorReadings(view)

IdleProbe ==
    /\ probe = [view |-> "AvalancheView.tsx", readings |-> <<>>, threshold |-> 75,
                audience |-> "researchers", result |-> ""]
    /\ probeLocals = <<>>
    /\ probeLog = <<>>
    /\ probeColors = <<>>

\* the id of no point of interest: selectedPoi === null
NoPoi == "null"

IdleView ==
    /\ view = "AvalancheView.tsx"
    /\ alertThreshold = 75
    /\ audience = "researchers"
    /\ aiState = IdleAi
    /\ history = <<>>
    /\ inflight = <<>>
    /\ now = 0
    /\ sectorData = SectorReadings(view)

IdleTerrain ==
    /\ selectedPoi = NoPoi
    /\ terrainAi = IdleAi
    /\ terrainInflight = <<>>
    /\ terrainShown = NoPoi

IdleManual ==
    /\ panelView = "AvalancheView"
    /\ panelAi = IdleAi
    /\ panelPending = 0
    /\ panelCalled = "none"
    /\ dataContent = ""
    /\ predictions = "null"
    /\ migrationPath = "empty"

IdleService == calls = <<>>

\* no zone selected: selectedZone === null
NoZone == "null"

\* no network selected: selectedNetworkToConnect === null
NoNetwork == "null"

IdleApp ==
    /\ wifiModalOpen = FALSE
    /\ connectionStatus = "connected"
    /\ currentNetwork = "Sentinel-Sat-Link"
    /\ selectedNetworkToConnect = NoNetwork
    /\ password = ""
    /\ connectError = ""
    /\ handshakes = <<>>

IdleDash ==
    /\ selectedZone = NoZone
    /\ viewMode = "details"
    /\ dashAi = IdleAi
    /\ dashInflight = <<>>
    /\ dashShown = NoZone
    /\ zoneEffectDue = FALSE

\* the parts of the application a specification leaves at rest
IdleShell == IdleApp /\ IdleDash

Init == InitView /\ IdleProbe /\ IdleTerrain /\ IdleManual /\ IdleService /\ IdleShell

\* variant: the slider reports a position between two steps
SetAlertThreshold_offgrid(t) ==
    /\ alertThreshold' = t + 2
    /\ UNCHANGED <<view, audience, aiState, history, inflight, now, sectorData, probeVars,
                 terrainVars, manualVars, serviceVars, appVars, dashVars>>

\* <input type="range" min="0" max="100" step="5" onChange=...>
SetAlertThreshold(t) ==
    /\ alertThreshold' = t
    /\ UNCHANGED <<view, audience, aiState, history, inflight, now, sectorData, probeVars,
                 terrainVars, manualVars, serviceVars, appVars, dashVars>>

\* the three audience buttons
SetAudience(a) ==
    /\ audience' = a
    /\ UNCHANGED <<view, alertThreshold, aiState, history, inflight, now, sectorData, probeVars,
                 terrainVars, manualVars, serviceVars, appVars, dashVars>>

\* click on "Generate Insight" (disabled while loading): handleAnalysis up to
\* its await
HandleAnalysis ==
    /\ ~aiState.loading
    /\ Len(history) + Len(inflight) < MaxHistory
    /\ aiState' = [aiState EXCEPT !.loading = TRUE, !.isThinking = TRUE]
    /\ inflight' = Append(inflight,
                     [ alertThreshold |-> alertThreshold,
                       audience       |-> audience,
                       prompt         |-> Prompt(view, alertThreshold, audience) ])
    /\ UNCHANGED <<view, alertThreshold, audience, history, now, sectorData, probeVars,
                 terrainVars, manualVars, serviceVars, appVars, dashVars>>

RemoveAt(s, i) == SubSeq(s, 1, i - 1) \o SubSeq(s, i + 1, Len(s))

\* variant: setHistory(prev => [...prev, newLog])
ResolveAnalysis_append(i, api, t) ==
    /\ i \in 1..Len(inflight)
    /\ now <= t
    /\ LET call == inflight[i]
           result == generateDeepThinkingInsight(api)
           newLog == NewLog(view, sectorData, call.alertThreshold,
                            call.audience, result, t, t)
       IN  /\ history' = Append(history, newLog)
           /\ aiState' = [markdown |-> result, loading |-> FALSE, isThinking |-> FALSE]
    /\ inflight' = RemoveAt(inflight, i)
    /\ now' = t
    /\ UNCHANGED <<view, alertThreshold, audience, sectorData, probeVars,
                 terrainVars, manualVars, serviceVars, appVars, dashVars>>

\* variant: the continuation reads the threshold and audience of the latest
\* render instead of those of its own closure
ResolveAnalysis_latest(i, api, t) ==
    /\ i \in 1..Len(inflight)
    /\ now <= t
    /\ LET result == generateDeepThinkingInsight(api)
           newLog == NewLog(view, sectorData, alertThreshold,
                            audience, result, t, t)
       IN  /\ history' = <<newLog>> \o history
           /\ aiState' = [markdown |-> result, loading |-> FALSE, isThinking |-> FALSE]
    /\ inflight' = RemoveAt(inflight, i)
    /\ now' = t
    /\ UNCHANGED <<view, alertThreshold, audience, sectorData, probeVars,
                 terrainVars, manualVars, serviceVars, appVars, dashVars>>

\* variant: an alert logged behind another one is escalated to Critical
ResolveAnalysis_escalate(i, api, t) ==
    /\ i \in 1..Len(inflight)
    /\ now <= t
    /\ LET call == inflight[i]
           result == generateDeepThinkingInsight(api)
           newLog == NewLog(view, sectorData, call.alertThreshold,
                            call.audience, result, t, t)
           logged == IF history = <<>> THEN newLog
                     ELSE [newLog EXCEPT !.riskLevel = "Critical"]
       IN  /\ history' = <<logged>> \o history
           /\ aiState' = [markdown |-> result, loading |-> FALSE, isThinking |-> FALSE]
    /\ inflight' = RemoveAt(inflight, i)
    /\ now' = t
    /\ UNCHANGED <<view, alertThreshold, audience, sectorData, probeVars,
                 terrainVars, manualVars, serviceVars, appVars, dashVars>>

\* variant: a failed request logs no alert
ResolveAnalysis_skipError(i, api, t) ==
    /\ i \in 1..Len(inflight)
    /\ now <= t
    /\ LET call == inflight[i]
           result == generateDeepThinkingInsight(api)
           newLog == NewLog(view, sectorData, call.alertThreshold,
                            call.audience, result, t, t)
       IN  /\ history' = IF api.ok THEN <<newLog>> \o history ELSE history
           /\ aiState' = [markdown |-> result, loading |-> FALSE, isThinking |-> FALSE]
    /\ inflight' = RemoveAt(inflight, i)
    /\ now' = t
    /\ UNCHANGED <<view, alertThreshold, audience, sectorData, probeVars,
                 terrainVars, manualVars, serviceVars, appVars, dashVars>>

\* variant: the readings are reversed in place (Array.prototype.reverse)
\* before they are filtered
ResolveAnalysis_reverse(i, api, t) ==
    /\ i \in 1..Len(inflight)
    /\ now <= t
    /\ LET call == inflight[i]
           result == generateDeepThinkingInsight(api)
           reversed == [k \in 1..Len(sectorData) |-> sectorData[Len(sectorData) + 1 - k]]
           newLog == NewLog(view, reversed, call.alertThreshold,
                            call.audience, result, t, t)
       IN  /\ history' = <<newLog>> \o history
           /\ aiState' = [markdown |-> result, loading |-> FALSE, isThinking |-> FALSE]
           /\ sectorData' = reversed
    /\ inflight' = RemoveAt(inflight, i)
    /\ now' = t
    /\ UNCHANGED <<view, alertThreshold, audience, probeVars,
                 terrainVars, manualVars, serviceVars, appVars, dashVars>>

\* the request of call i settles with api: handleAnalysis after its await.
\* Date.now() and new Date() are read in one synchronous step, at clock value t
ResolveAnalysis(i, api, t) ==
    /\ i \in 1..Len(inflight)
    /\ now <= t
    /\ LET call == inflight[i]
           result == generateDeepThinkingInsight(api)
           newLog == NewLog(view, sectorData, call.alertThreshold,
                            call.audience, result, t, t)
       IN  /\ history' = <<newLog>> \o history
           /\ aiState' = [markdown |-> result, loading |-> FALSE, isThinking |-> FALSE]
    /\ inflight' = RemoveAt(inflight, i)
    /\ now' = t
    /\ UNCHANGED <<view, alertThreshold, audience, sectorData, probeVars,
                 terrainVars, manualVars, serviceVars, appVars, dashVars>>

Next ==
    \/ \E t \in ThresholdChoices : SetAlertThreshold(t)
    \/ \E a \in Audiences : SetAudience(a)
    \/ HandleAnalysis
    \/ \E i \in 1..MaxHistory, api \in ApiOutcomes, t \in 0..MaxClock :
          ResolveAnalysis(i, api, t)

Spec == Init /\ [][Next]_vars

----------------------------------------------------------------------------
(* The log-entry computation on arbitrary inputs *)

ScoreSamples == {30, 45, 50, 85, 92}
ScoreRange == (0 - ScoreMargin)..(100 + ScoreMargin)
BuildThresholds == {10, 50, 75, 95}

ZoneAt(i) == SECTOR_DATA[((i - 1) % Len(SECTOR_DATA)) + 1].zone

Snapshot(scores) == [i \in 1..Len(scores) |-> [zone |-> ZoneAt(i), risk |-> scores[i]]]

\* snapshots of up to MaxLen sectors over the sample scores, and one-sector
\* snapshots over every score of ScoreRange
ReadingSeqs ==
    {Snapshot(scores) : scores \in UNION {[1..n -> ScoreSamples] : n \in 0..MaxLen}}
      \cup {Snapshot(<<s>>) : s \in ScoreRange}

InitBuild ==
    /\ view = "AvalancheView.tsx"
    /\ alertThreshold = 75
    /\ audience = "researchers"
    /\ aiState = IdleAi
    /\ history = <<>>
    /\ inflight = <<>>
    /\ now = 0
    /\ sectorData = SectorReadings(view)
    /\ probe \in [ view      : Views,
                   readings  : ReadingSeqs,
                   threshold : BuildThresholds,
                   audience  : Audiences,
                   result    : Results ]
    /\ probeLocals = <<>>
    /\ probeLog = <<>>
    /\ probeColors = <<>>
    /\ IdleTerrain /\ IdleManual /\ IdleService /\ IdleShell

\* lines "Log the alert" .. newLog of handleAnalysis, on the inputs of probe
BuildLog ==
    /\ probeLog = <<>>
    /\ probeLocals' = <<Locals(probe.view, probe.readings, probe.threshold)>>
    /\ probeLog' = <<NewLog(probe.view, probe.readings, probe.threshold,
                           probe.audience, probe.result, now, now)>>
    /\ UNCHANGED <<viewVars, probe, probeColors, terrainVars, manualVars, serviceVars, appVars, dashVars>>

\* the chart cells: readings.map(entry => getRiskColor(entry.risk))
RenderCells ==
    /\ probeColors = <<>>
    /\ probe.readings # <<>>
    /\ probeColors' = [i \in 1..Len(probe.readings) |-> getRiskColor(probe.readings[i].risk)]
    /\ UNCHANGED <<viewVars, probe, probeLocals, probeLog, terrainVars, manualVars,
                 serviceVars, appVars, dashVars>>

NextBuild == BuildLog \/ RenderCells

SpecBuild == InitBuild /\ [][NextBuild]_vars

----------------------------------------------------------------------------
(* TerrainView: analysis of the selected point of interest *)

\* the ids of POI_DATA
POI_DATA == <<"summit", "raikot", "diamir", "rupal", "mazeno">>

PoiIds == {POI_DATA[i] : i \in 1..Len(POI_DATA)}

InitTerrain ==
    IdleView /\ IdleProbe /\ IdleTerrain /\ IdleManual /\ IdleService /\ IdleShell

\* handleAnalyze(poi) up to its await
handleAnalyze(poi) ==
    /\ terrainAi' = [markdown |-> "", loading |-> TRUE, isThinking |-> TRUE]
    /\ terrainInflight' = Append(terrainInflight, poi)
    /\ terrainShown' = NoPoi

\* click on the marker of p: setSelectedPoi(p), then the effect on
\* selectedPoi?.id calls handleAnalyze(p).  A click on the marker of the
\* selected poi changes no state and runs no effect.
SelectPoi(p) ==
    /\ p # selectedPoi
    /\ Len(terrainInflight) < MaxInflight
    /\ selectedPoi' = p
    /\ handleAnalyze(p)
    /\ UNCHANGED <<viewVars, probeVars, manualVars, serviceVars, appVars, dashVars>>

\* click on "Generate Insight" of the poi's panel (rendered for a selected
\* poi, disabled while loading)
AnalyzePoi ==
    /\ selectedPoi # NoPoi
    /\ ~terrainAi.loading
    /\ Len(terrainInflight) < MaxInflight
    /\ handleAnalyze(selectedPoi)
    /\ UNCHANGED <<selectedPoi, viewVars, probeVars, manualVars, serviceVars, appVars, dashVars>>

\* the request of call i settles with api: handleAnalyze after its await
ResolveTerrain(i, api) ==
    /\ i \in 1..Len(terrainInflight)
    /\ terrainAi' = [markdown |-> generateDeepThinkingInsight(api),
                     loading |-> FALSE, isThinking |-> FALSE]
    /\ terrainInflight' = RemoveAt(terrainInflight, i)
    /\ terrainShown' = terrainInflight[i]
    /\ UNCHANGED <<selectedPoi, viewVars, probeVars, manualVars, serviceVars, appVars, dashVars>>

NextTerrain ==
    \/ \E p \in PoiIds : SelectPoi(p)
    \/ AnalyzePoi
    \/ \E i \in 1..MaxInflight, api \in ApiOutcomes : ResolveTerrain(i, api)

SpecTerrain == InitTerrain /\ [][NextTerrain]_vars

\* C14: at most one text-generation request of the view is in flight at any
\* time, whether requests are started by the Generate Insight button or by a
\* change of the selection.
C14_SingleInFlight == Len(terrainInflight) <= 1

\* C24: whenever loading is false and a markdown is displayed, it is the
\* response to the request issued for the currently selected point of
\* interest.
C24_ShownIsSelected ==
    (~terrainAi.loading /\ terrainAi.markdown # "") => terrainShown = selectedPoi

----------------------------------------------------------------------------
(* The views with a manual Generate Insight trigger *)

ManualViews ==
    {"AvalancheView", "GlacierView", "EcosystemView", "WeatherView", "DataLabView"}

\* a response that ends with the json block the glacier and ecosystem prompts
\* ask for
JsonInsight == "## Projection ... json { p2030: -115, migrationPath: [] }"

ManualApiOutcomes == ApiOutcomes \cup {[ok |-> TRUE, text |-> JsonInsight]}

\* result.match finds a fenced json block and JSON.parse accepts it
HasJsonBlock(result) == result = JsonInsight

\* the content loadSampleData puts in dataContent
SampleData == "Timestamp,Magnitude,Depth_km,Lat,Long,Region"

\* the avalanche view is the machine of Spec (aiState, history, inflight); the
\* other four views use the panel variables
InitManual ==
    /\ IdleView /\ IdleProbe /\ IdleTerrain /\ IdleService /\ IdleShell
    /\ panelView \in ManualViews
    /\ panelAi = IdleAi
    /\ panelPending = 0
    /\ panelCalled = "none"
    /\ dataContent = ""
    /\ predictions = "null"
    /\ migrationPath = "empty"

\* DataLabView: one of the sample buttons, shown while no data is loaded
LoadSampleData ==
    /\ panelView = "DataLabView"
    /\ dataContent = ""
    /\ dataContent' = SampleData
    /\ panelCalled' = "loadSampleData"
    /\ UNCHANGED <<panelView, panelAi, panelPending, predictions, migrationPath,
                   viewVars, probeVars, terrainVars, serviceVars, appVars, dashVars>>

\* DataLabView: the remove button, shown while data is loaded
ClearData ==
    /\ panelView = "DataLabView"
    /\ dataContent # ""
    /\ dataContent' = ""
    /\ panelAi' = IdleAi
    /\ panelCalled' = "clearData"
    /\ UNCHANGED <<panelView, panelPending, predictions, migrationPath,
                   viewVars, probeVars, terrainVars, serviceVars, appVars, dashVars>>

\* click on "Generate Insight" (disabled while loading) in the glacier,
\* ecosystem, weather or data lab view: handleAnalysis up to its await.
\* DataLabView returns at once when no data is loaded; EcosystemView resets
\* the migration path.
ClickGenerate ==
    /\ panelView # "AvalancheView"
    /\ ~panelAi.loading
    /\ panelPending < MaxInflight
    /\ panelCalled' = "handleAnalysis"
    /\ IF panelView = "DataLabView" /\ dataContent = ""
       THEN UNCHANGED <<panelAi, panelPending, migrationPath>>
       ELSE /\ panelAi' = [panelAi EXCEPT !.loading = TRUE, !.isThinking = TRUE]
            /\ panelPending' = panelPending + 1
            /\ migrationPath' = IF panelView = "EcosystemView" THEN "empty"
                                ELSE migrationPath
    /\ UNCHANGED <<panelView, dataContent, predictions,
                   viewVars, probeVars, terrainVars, serviceVars, appVars, dashVars>>

\* variant: the json block is parsed outside a try, so a response without a
\* parsable block ends the continuation before its setAiState
ResolveManual_throw(api) ==
    /\ panelPending > 0
    /\ LET result == generateDeepThinkingInsight(api)
       IN  /\ predictions' = IF panelView = "GlacierView" /\ HasJsonBlock(result)
                             THEN "parsed" ELSE predictions
           /\ migrationPath' = IF panelView = "EcosystemView" /\ HasJsonBlock(result)
                               THEN "parsed" ELSE migrationPath
           /\ panelAi' = IF HasJsonBlock(result)
                         THEN [markdown |-> result, loading |-> FALSE, isThinking |-> FALSE]
                         ELSE panelAi
    /\ panelPending' = panelPending - 1
    /\ panelCalled' = "continuation"
    /\ UNCHANGED <<panelView, dataContent, viewVars, probeVars, terrainVars, serviceVars, appVars, dashVars>>

\* a request of the view settles with api: handleAnalysis after its await
ResolveManual(api) ==
    /\ panelPending > 0
    /\ LET result == generateDeepThinkingInsight(api)
       IN  /\ predictions' = IF panelView = "GlacierView" /\ HasJsonBlock(result)
                             THEN "parsed" ELSE predictions
           /\ migrationPath' = IF panelView = "EcosystemView" /\ HasJsonBlock(result)
                               THEN "parsed" ELSE migrationPath
           /\ panelAi' = [markdown |-> result, loading |-> FALSE, isThinking |-> FALSE]
    /\ panelPending' = panelPending - 1
    /\ panelCalled' = "continuation"
    /\ UNCHANGED <<panelView, dataContent, viewVars, probeVars, terrainVars, serviceVars, appVars, dashVars>>

\* the avalanche view: the click and the continuation of Spec
AvalancheClick == panelView = "AvalancheView" /\ HandleAnalysis

AvalancheResolve ==
    /\ panelView = "AvalancheView"
    /\ \E i \in 1..MaxHistory, api \in ApiOutcomes, t \in 0..MaxClock :
          ResolveAnalysis(i, api, t)

PanelResolve == \E api \in ManualApiOutcomes : ResolveManual(api)

NextManual ==
    \/ LoadSampleData
    \/ ClearData
    \/ ClickGenerate
    \/ PanelResolve
    \/ AvalancheClick
    \/ AvalancheResolve

\* every request made eventually settles: a suspended call is not left
\* waiting forever
SpecManual ==
    /\ InitManual
    /\ [][NextManual]_vars
    /\ WF_vars(PanelResolve)
    /\ WF_vars(AvalancheResolve)

\* the view has returned from an analysis: flags down, markdown filled
Settled(ai) == ~ai.loading /\ ~ai.isThinking /\ ai.markdown # ""

\* C19 (as stated): in every view with a Generate Insight button, the state
\* right after the click handler ran has loading and isThinking true.
C19_TriggerSetsLoading ==
    panelCalled = "handleAnalysis" => panelAi.loading /\ panelAi.isThinking

\* C19 (amended): a click on Generate Insight sets loading and isThinking,
\* in the data lab only when data is loaded; once the request settles the
\* flags return to false with a non-empty markdown, so loading is never true
\* forever.
C19_ManualAnalysis ==
    /\ []( (panelCalled = "handleAnalysis"
              /\ ~(panelView = "DataLabView" /\ dataContent = ""))
            => panelAi.loading /\ panelAi.isThinking )
    /\ [][ Len(inflight') > Len(inflight) =>
              aiState'.loading /\ aiState'.isThinking ]_vars
    /\ panelAi.loading ~> Settled(panelAi)
    /\ aiState.loading ~> Settled(aiState)

C19_Witness ==
    /\ panelView = "DataLabView"
    /\ dataContent # ""
    /\ panelCalled = "continuation"
    /\ panelPending = 0
    /\ Settled(panelAi)

----------------------------------------------------------------------------
(* Callers of the insight functions *)

InitService ==
    IdleView /\ IdleProbe /\ IdleTerrain /\ IdleManual /\ IdleService /\ IdleShell

\* a caller invokes fn(prompt): the promise is pending until the API call ends
CallInsight(fn) ==
    /\ Len(calls) < MaxCalls
    /\ calls' = Append(calls, [fn |-> fn, state |-> "pending", ok |-> FALSE,
                               text |-> "", value |-> ""])
    /\ UNCHANGED <<viewVars, probeVars, terrainVars, manualVars, appVars, dashVars>>

\* the API call of call i ends with api and the promise settles
SettleInsight(i, api) ==
    /\ i \in 1..Len(calls)
    /\ calls[i].state = "pending"
    /\ LET settled == Settlement(calls[i].fn, api)
       IN  calls' = [calls EXCEPT ![i] = [fn |-> calls[i].fn, state |-> settled.state,
                                         ok |-> api.ok, text |-> api.text,
                                         value |-> settled.value]]
    /\ UNCHANGED <<viewVars, probeVars, terrainVars, manualVars, appVars, dashVars>>

NextService ==
    \/ \E fn \in InsightFunctions : CallInsight(fn)
    \/ \E i \in 1..MaxCalls, api \in ApiOutcomes : SettleInsight(i, api)

SpecService == InitService /\ [][NextService]_vars

\* the fixed strings of the two functions
FixedErrorText(fn) ==
    IF fn = "generateStandardInsight"
    THEN "Error generating standard insight. Please check API Key."
    ELSE "Error generating deep insight. Please check API Key."

FixedEmptyText(fn) ==
    IF fn = "generateStandardInsight"
    THEN "No analysis available."
    ELSE "No deep analysis available."

\* C18: a call to generateDeepThinkingInsight or generateStandardInsight is
\* never rejected; it resolves to the function's fixed error string when the
\* API call fails, to its fixed 'no analysis' string when the response text is
\* empty, and to the response text otherwise: always a non-empty string.
C18_NeverRejects ==
    \A i \in 1..Len(calls) :
       LET c == calls[i]
       IN  /\ c.state \in {"pending", "fulfilled"}
           /\ c.state = "fulfilled" =>
                 /\ c.value # ""
                 /\ ~c.ok => c.value = FixedErrorText(c.fn)
                 /\ (c.ok /\ c.text = "") => c.value = FixedEmptyText(c.fn)
                 /\ (c.ok /\ c.text # "") => c.value = c.text

C18_Witness ==
    /\ Len(calls) = 3
    /\ calls[1].fn = "generateStandardInsight" /\ calls[1].state = "fulfilled"
    /\ ~calls[1].ok
    /\ calls[2].fn = "generateDeepThinkingInsight" /\ calls[2].state = "fulfilled"
    /\ calls[2].ok /\ calls[2].text = ""
    /\ calls[3].fn = "generateStandardInsight" /\ calls[3].state = "fulfilled"
    /\ calls[3].ok /\ calls[3].text = ""

----------------------------------------------------------------------------
(* App: the connectivity state machine *)

availableNetworks ==
    << [ssid |-> "Sentinel-Sat-Link",      secure |-> TRUE],
       [ssid |-> "Base-Camp-Relay-1",      secure |-> TRUE],
       [ssid |-> "Nanga-Research-Outpost", secure |-> TRUE],
       [ssid |-> "Rescue-Chopper-Net",     secure |-> TRUE],
       [ssid |-> "Guest-WiFi",             secure |-> FALSE] >>

Ssids == {availableNetworks[i].ssid : i \in 1..Len(availableNetworks)}

\* availableNetworks.find(n => n.ssid === ssid)?.secure, undefined being falsy
IsSecure(ssid) ==
    \E i \in 1..Len(availableNetworks) :
       availableNetworks[i].ssid = ssid /\ availableNetworks[i].secure

\* the shortest password handleConnect accepts for a secure network
MinPasswordLength == 4

\* what the user types in the password field: nothing, one character, one
\* character too few, just enough
PasswordInputs == {"", "k", "k2x", "k2x9"}

InitApp ==
    /\ IdleView /\ IdleProbe /\ IdleTerrain /\ IdleManual /\ IdleService /\ IdleDash
    /\ IdleApp

\* click on the status button of the sidebar
OpenWifiModal ==
    /\ ~wifiModalOpen
    /\ wifiModalOpen' = TRUE
    /\ UNCHANGED <<connectionStatus, currentNetwork, selectedNetworkToConnect, password,
                   connectError, handshakes>>
    /\ UNCHANGED <<viewVars, probeVars, terrainVars, manualVars, serviceVars, dashVars>>

\* the X button of the modal, also shown during the handshake
CloseWifiModal ==
    /\ wifiModalOpen
    /\ wifiModalOpen' = FALSE
    /\ selectedNetworkToConnect' = NoNetwork
    /\ password' = ""
    /\ connectError' = ""
    /\ UNCHANGED <<connectionStatus, currentNetwork, handshakes>>
    /\ UNCHANGED <<viewVars, probeVars, terrainVars, manualVars, serviceVars, dashVars>>

\* click on a network of the list (shown when not connecting and no network
\* is selected); the network in use does nothing
SelectNetwork(ssid) ==
    /\ wifiModalOpen
    /\ connectionStatus # "connecting"
    /\ selectedNetworkToConnect = NoNetwork
    /\ ~(ssid = currentNetwork /\ connectionStatus = "connected")
    /\ selectedNetworkToConnect' = ssid
    /\ UNCHANGED <<wifiModalOpen, connectionStatus, currentNetwork, password,
                   connectError, handshakes>>
    /\ UNCHANGED <<viewVars, probeVars, terrainVars, manualVars, serviceVars, dashVars>>

\* "Back to Networks" of the password form
BackToNetworks ==
    /\ wifiModalOpen
    /\ connectionStatus # "connecting"
    /\ selectedNetworkToConnect # NoNetwork
    /\ selectedNetworkToConnect' = NoNetwork
    /\ connectError' = ""
    /\ UNCHANGED <<wifiModalOpen, connectionStatus, currentNetwork, password, handshakes>>
    /\ UNCHANGED <<viewVars, probeVars, terrainVars, manualVars, serviceVars, dashVars>>

\* the password field of the form
SetPassword(p) ==
    /\ wifiModalOpen
    /\ connectionStatus # "connecting"
    /\ selectedNetworkToConnect # NoNetwork
    /\ password' = p
    /\ UNCHANGED <<wifiModalOpen, connectionStatus, currentNetwork,
                   selectedNetworkToConnect, connectError, handshakes>>
    /\ UNCHANGED <<viewVars, probeVars, terrainVars, manualVars, serviceVars, dashVars>>

\* variant: the password is not checked
handleConnect_unchecked ==
    IF selectedNetworkToConnect = NoNetwork
    THEN UNCHANGED appVars
    ELSE /\ connectError' = ""
         /\ connectionStatus' = "connecting"
         /\ handshakes' = Append(handshakes, selectedNetworkToConnect)
         /\ UNCHANGED <<wifiModalOpen, currentNetwork, selectedNetworkToConnect, password>>

\* handleConnect up to its setTimeout
handleConnect ==
    IF selectedNetworkToConnect = NoNetwork
    THEN UNCHANGED appVars
    ELSE IF IsSecure(selectedNetworkToConnect) /\ Len(password) < MinPasswordLength
    THEN /\ connectError' = "Invalid Password Sequence"
         /\ UNCHANGED <<wifiModalOpen, connectionStatus, currentNetwork,
                        selectedNetworkToConnect, password, handshakes>>
    ELSE /\ connectError' = ""
         /\ connectionStatus' = "connecting"
         /\ handshakes' = Append(handshakes, selectedNetworkToConnect)
         /\ UNCHANGED <<wifiModalOpen, currentNetwork, selectedNetworkToConnect, password>>

\* the CONNECT button of the password form, disabled while the field is empty
ClickConnect ==
    /\ wifiModalOpen
    /\ connectionStatus # "connecting"
    /\ selectedNetworkToConnect # NoNetwork
    /\ password # ""
    /\ handleConnect
    /\ UNCHANGED <<viewVars, probeVars, terrainVars, manualVars, serviceVars, dashVars>>

\* the timer of handshake i fires, 2500 ms after its handleConnect
HandshakeDone(i) ==
    /\ i \in 1..Len(handshakes)
    /\ connectionStatus' = "connected"
    /\ currentNetwork' = handshakes[i]
    /\ selectedNetworkToConnect' = NoNetwork
    /\ password' = ""
    /\ wifiModalOpen' = FALSE
    /\ handshakes' = RemoveAt(handshakes, i)
    /\ UNCHANGED connectError
    /\ UNCHANGED <<viewVars, probeVars, terrainVars, manualVars, serviceVars, dashVars>>

\* variant: the network name is kept for a later reconnect
handleDisconnect_keep ==
    /\ connectionStatus' = "disconnected"
    /\ wifiModalOpen' = FALSE
    /\ UNCHANGED <<currentNetwork, selectedNetworkToConnect, password, connectError,
                   handshakes>>

handleDisconnect ==
    /\ connectionStatus' = "disconnected"
    /\ currentNetwork' = ""
    /\ wifiModalOpen' = FALSE
    /\ UNCHANGED <<selectedNetworkToConnect, password, connectError, handshakes>>

\* the DISCONNECT button under the list, shown while connected
ClickDisconnect ==
    /\ wifiModalOpen
    /\ connectionStatus = "connected"
    /\ selectedNetworkToConnect = NoNetwork
    /\ handleDisconnect
    /\ UNCHANGED <<viewVars, probeVars, terrainVars, manualVars, serviceVars, dashVars>>

NextApp ==
    \/ OpenWifiModal
    \/ CloseWifiModal
    \/ \E ssid \in Ssids : SelectNetwork(ssid)
    \/ BackToNetworks
    \/ \E p \in PasswordInputs : SetPassword(p)
    \/ ClickConnect
    \/ \E i \in 1..Len(handshakes) : HandshakeDone(i)
    \/ ClickDisconnect

SpecApp == InitApp /\ [][NextApp]_vars

\* C25: connected implies currentNetwork is the SSID of an available network,
\* disconnected implies currentNetwork is the empty string.
C25_NetworkMatchesStatus ==
    /\ connectionStatus \in {"connected", "disconnected", "connecting"}
    /\ connectionStatus = "connected" => currentNetwork \in Ssids
    /\ connectionStatus = "disconnected" => currentNetwork = ""

C25_Witness ==
    /\ connectionStatus = "connected"
    /\ currentNetwork = "Guest-WiFi"
    /\ handshakes = <<>>
    /\ ~wifiModalOpen

\* the CONNECT button can be clicked on a secure network with a password of
\* fewer than MinPasswordLength characters
ShortPasswordEntered ==
    /\ wifiModalOpen
    /\ connectionStatus # "connecting"
    /\ selectedNetworkToConnect # NoNetwork
    /\ IsSecure(selectedNetworkToConnect)
    /\ password # ""
    /\ Len(password) < MinPasswordLength

\* C26: CONNECT on a secure network with a password shorter than 4 characters
\* sets connectError to 'Invalid Password Sequence' and starts no handshake,
\* leaving connectionStatus and currentNetwork as they were; a handshake
\* starts only with connectError cleared; handleConnect with no network
\* selected changes nothing; and connectionStatus = 'connecting' implies
\* connectError is empty.
C26_PasswordRejected ==
    /\ [](ShortPasswordEntered =>
            /\ ENABLED (ClickConnect /\ connectError' = "Invalid Password Sequence")
            /\ ~ENABLED (ClickConnect /\ connectError' # "Invalid Password Sequence")
            /\ ~ENABLED (ClickConnect /\ <<connectionStatus, currentNetwork, handshakes>>'
                                          # <<connectionStatus, currentNetwork, handshakes>>))
    /\ [][ handshakes' # handshakes /\ Len(handshakes') > Len(handshakes) =>
              /\ ~ShortPasswordEntered
              /\ connectError' = ""
              /\ connectionStatus' = "connecting" ]_vars
    /\ [](selectedNetworkToConnect = NoNetwork =>
            ~ENABLED (handleConnect /\ appVars' # appVars))
    /\ [](connectionStatus = "connecting" => connectError = "")

C26_Witness ==
    /\ connectError = "Invalid Password Sequence"
    /\ selectedNetworkToConnect = "Base-Camp-Relay-1"
    /\ password = "k2x"
    /\ connectionStatus = "disconnected"
    /\ currentNetwork = ""
    /\ handshakes = <<>>

----------------------------------------------------------------------------
(* Dashboard: the side panel of the selected zone *)

\* the pins a run clicks: the first two zones of ZONES
PinZones == {"z1", "z2"}

\* the zones the geology, lithology and fault handlers build: 'geo-master',
\* `litho-${unit.id}` and `fault-${fault.id}` of the first unit and fault
StructureZones == {"geo-master", "litho-l1", "fault-f1"}

InitDash ==
    /\ IdleView /\ IdleProbe /\ IdleTerrain /\ IdleManual /\ IdleService /\ IdleApp
    /\ IdleDash

\* an analysis handler up to its await, for the zone of its prompt
StartDashRequest(zone) ==
    /\ dashAi' = [markdown |-> "", loading |-> TRUE, isThinking |-> TRUE]
    /\ dashInflight' = Append(dashInflight, zone)
    /\ dashShown' = NoZone

\* click on the pin of zone z: setSelectedZone(zone).  The pin of the selected
\* zone passes the same object, which changes nothing.
ClickPin(z) ==
    /\ ~zoneEffectDue
    /\ z # selectedZone
    /\ selectedZone' = z
    /\ zoneEffectDue' = TRUE
    /\ UNCHANGED <<viewMode, dashAi, dashInflight, dashShown>>
    /\ UNCHANGED <<viewVars, probeVars, terrainVars, manualVars, serviceVars, appVars>>

\* the X buttons of the panel and the click on the map: setSelectedZone(null);
\* the effect runs and finds no zone
CloseZone ==
    /\ ~zoneEffectDue
    /\ selectedZone # NoZone
    /\ selectedZone' = NoZone
    /\ UNCHANGED <<viewMode, dashAi, dashInflight, dashShown, zoneEffectDue>>
    /\ UNCHANGED <<viewVars, probeVars, terrainVars, manualVars, serviceVars, appVars>>

\* the effect on [selectedZone], run after the render that changed the zone
ZoneEffect ==
    /\ zoneEffectDue
    /\ zoneEffectDue' = FALSE
    /\ IF selectedZone # NoZone
       THEN /\ viewMode' = "details"
            /\ dashAi' = IdleAi
            /\ dashShown' = NoZone
       ELSE UNCHANGED <<viewMode, dashAi, dashShown>>
    /\ UNCHANGED <<selectedZone, dashInflight>>
    /\ UNCHANGED <<viewVars, probeVars, terrainVars, manualVars, serviceVars, appVars>>

\* handleZoneAnalysis as called by a render with response state ai
handleZoneAnalysis(ai) ==
    IF selectedZone = NoZone
    THEN UNCHANGED <<viewMode, dashAi, dashInflight, dashShown>>
    ELSE /\ viewMode' = "analysis"
         /\ IF ai.markdown = "" /\ ~ai.loading
            THEN /\ Len(dashInflight) < MaxInflight
                 /\ StartDashRequest(selectedZone)
            ELSE UNCHANGED <<dashAi, dashInflight, dashShown>>

\* the ANALYSIS button of the details panel
ClickAnalysis ==
    /\ ~zoneEffectDue
    /\ selectedZone # NoZone
    /\ viewMode = "details"
    /\ handleZoneAnalysis(dashAi)
    /\ UNCHANGED <<selectedZone, zoneEffectDue>>
    /\ UNCHANGED <<viewVars, probeVars, terrainVars, manualVars, serviceVars, appVars>>

\* the RUN DEEP PHYSICS SIMULATION button of the details panel:
\* handleDeepSimulation up to its await
ClickDeepSimulation ==
    /\ ~zoneEffectDue
    /\ selectedZone # NoZone
    /\ viewMode = "details"
    /\ Len(dashInflight) < MaxInflight
    /\ viewMode' = "analysis"
    /\ StartDashRequest(selectedZone)
    /\ UNCHANGED <<selectedZone, zoneEffectDue>>
    /\ UNCHANGED <<viewVars, probeVars, terrainVars, manualVars, serviceVars, appVars>>

\* "Generate Insight" of the analysis panel (disabled while loading):
\* setAiState(prev => cleared) is queued, then handleZoneAnalysis of the
\* current render runs, which still sees the aiState of that render; a
\* setAiState of handleZoneAnalysis is applied after the queued one
ClickGenerateInsight ==
    /\ ~zoneEffectDue
    /\ selectedZone # NoZone
    /\ viewMode = "analysis"
    /\ ~dashAi.loading
    /\ IF dashAi.markdown = ""
       THEN handleZoneAnalysis(dashAi)
       ELSE /\ dashAi' = [dashAi EXCEPT !.markdown = "", !.loading = FALSE,
                                        !.isThinking = FALSE]
            /\ dashShown' = NoZone
            /\ UNCHANGED <<viewMode, dashInflight>>
    /\ UNCHANGED <<selectedZone, zoneEffectDue>>
    /\ UNCHANGED <<viewVars, probeVars, terrainVars, manualVars, serviceVars, appVars>>

\* "Back to Telemetry" of the analysis panel
BackToTelemetry ==
    /\ ~zoneEffectDue
    /\ selectedZone # NoZone
    /\ viewMode = "analysis"
    /\ viewMode' = "details"
    /\ UNCHANGED <<selectedZone, dashAi, dashInflight, dashShown, zoneEffectDue>>
    /\ UNCHANGED <<viewVars, probeVars, terrainVars, manualVars, serviceVars, appVars>>

\* handleGeologyAnalysis, handleLithologyUnitAnalysis(unit) and
\* handleFaultAnalysis(fault) up to their await: each selects a zone object
\* built on the spot, so the zone changes on every call
HandleStructureAnalysis(z) ==
    /\ ~zoneEffectDue
    /\ Len(dashInflight) < MaxInflight
    /\ selectedZone' = z
    /\ viewMode' = "analysis"
    /\ StartDashRequest(z)
    /\ zoneEffectDue' = TRUE
    /\ UNCHANGED <<viewVars, probeVars, terrainVars, manualVars, serviceVars, appVars>>

\* the request of call i settles with api: the handler after its await
ResolveDash(i, api) ==
    /\ ~zoneEffectDue
    /\ i \in 1..Len(dashInflight)
    /\ dashAi' = [markdown |-> generateDeepThinkingInsight(api),
                  loading |-> FALSE, isThinking |-> FALSE]
    /\ dashShown' = dashInflight[i]
    /\ dashInflight' = RemoveAt(dashInflight, i)
    /\ UNCHANGED <<selectedZone, viewMode, zoneEffectDue>>
    /\ UNCHANGED <<viewVars, probeVars, terrainVars, manualVars, serviceVars, appVars>>

NextDash ==
    \/ \E z \in PinZones : ClickPin(z)
    \/ CloseZone
    \/ ZoneEffect
    \/ ClickAnalysis
    \/ ClickDeepSimulation
    \/ ClickGenerateInsight
    \/ BackToTelemetry
    \/ \E z \in StructureZones : HandleStructureAnalysis(z)
    \/ \E i \in 1..MaxInflight, api \in ApiOutcomes : ResolveDash(i, api)

SpecDash == InitDash /\ [][NextDash]_vars

\* C21: the zone-change effect that runs after the geology, lithology or
\* fault handler leaves the panel in 'analysis' view mode with loading true.
C21_EffectKeepsAnalysis ==
    [][ (zoneEffectDue /\ ~zoneEffectDue' /\ selectedZone \in StructureZones) =>
           /\ viewMode' = "analysis"
           /\ dashAi'.loading ]_vars

\* C22: once the zone-change effect has run, the analysis text stored while a
\* zone is selected was produced by a request issued for that zone.
C22_AnalysisOfSelectedZone ==
    (~zoneEffectDue /\ selectedZone # NoZone /\ dashAi.markdown # "") =>
       dashShown = selectedZone

\* C23: a click on Generate Insight that clears a displayed analysis starts a
\* new request in the same step: loading becomes true and one more call is
\* suspended.
C23_RegenerateStartsRequest ==
    [][ ( /\ ~zoneEffectDue
          /\ viewMode = "analysis"
          /\ selectedZone' = selectedZone
          /\ ~dashAi.loading
          /\ dashAi.markdown # ""
          /\ dashAi'.markdown = "" ) =>
           /\ dashAi'.loading
           /\ Len(dashInflight') = Len(dashInflight) + 1 ]_vars

----------------------------------------------------------------------------
(* Properties of the log-entry computation (SpecBuild) *)

RiskLevels == {"Critical", "High", "Moderate", "Low"}

\* the largest risk score of a snapshot, 0 for an empty one
MaxScore(readings) ==
    LET scores == {readings[i].risk : i \in 1..Len(readings)} \cup {0}
    IN  CHOOSE m \in scores : \A x \in scores : x <= m

\* the positions of a snapshot whose risk is strictly above t
Above(readings, t) == {i \in 1..Len(readings) : readings[i].risk > t}

\* zones is the list of the zones at the positions of idx, in increasing position
ListsPositions(zones, readings, idx) ==
    /\ Len(zones) = Cardinality(idx)
    /\ \A k \in 1..Len(zones) :
          \E i \in idx : /\ Cardinality({j \in idx : j < i}) = k - 1
                         /\ zones[k] = readings[i].zone

Built == probeLog # <<>>

\* C1: for a score in [0,100], the riskLevel AvalancheView.tsx logs is Critical
\* iff score > 80, High iff 50 < score <= 80, Low iff score <= 50, never
\* Moderate; getRiskColor puts the score in the same bucket (red, orange, green).
C1_Classification ==
    /\ (Built /\ probe.view = "AvalancheView.tsx") =>
          LET score == MaxScore(probe.readings)
              level == probeLog[1].riskLevel
          IN  score \in 0..100 =>
                /\ (level = "Critical") <=> (score > 80)
                /\ (level = "High") <=> (50 < score /\ score <= 80)
                /\ (level = "Low") <=> (score <= 50)
                /\ level # "Moderate"
    /\ \A i \in 1..Len(probeColors) :
          LET score == probe.readings[i].risk
              color == probeColors[i]
          IN  score \in 0..100 =>
                /\ (color = "#ef4444") <=> (score > 80)
                /\ (color = "#f59e0b") <=> (50 < score /\ score <= 80)
                /\ (color = "#10b981") <=> (score <= 50)

C1_Witness ==
    /\ Built /\ probe.view = "AvalancheView.tsx"
    /\ MaxScore(probe.readings) = 80
    /\ probeLog[1].riskLevel = "High"
    /\ probeColors # <<>>

\* C3 (amended): in the AvalancheView of TerrainView.tsx the riskLevel is
\* derived from the largest risk among the affected zones only (Critical above
\* 80, High above 50, Moderate otherwise) and is Low whenever no zone is affected.
C3_TerrainAffectedMax ==
    (Built /\ probe.view = "TerrainView.tsx") =>
       LET r == probe.readings
           idx == Above(r, probe.threshold)
           top == MaxScore([i \in 1..Len(r) |->
                              IF i \in idx THEN r[i] ELSE [zone |-> r[i].zone, risk |-> 0]])
           e == probeLog[1]
       IN  /\ (e.zones = <<>>) <=> (idx = {})
           /\ idx = {} => e.riskLevel = "Low"
           /\ idx # {} => e.riskLevel = IF top > 80 THEN "Critical"
                                        ELSE IF top > 50 THEN "High" ELSE "Moderate"

\* C3: the riskLevel of an entry is derived from the affected zones only: it is
\* Low whenever no zone is affected, and above Low only when an affected zone's
\* risk is above 50 (in either component).
C3_AffectedMaxOnly ==
    Built =>
       LET e == probeLog[1]
           r == probe.readings
           idx == Above(r, probe.threshold)
       IN  /\ e.zones = <<>> => e.riskLevel = "Low"
           /\ e.riskLevel \in {"Critical", "High"} => \E i \in idx : r[i].risk > 50

C3_Witness ==
    /\ Built /\ probe.view = "TerrainView.tsx"
    /\ probeLog[1].zones = <<>>
    /\ MaxScore(probe.readings) > 80
    /\ probeLog[1].riskLevel = "Low"

\* C4: the affected zone list is exactly the zones of the readings whose risk
\* is strictly greater than the threshold, in the readings' order.
C4_AffectedExact ==
    Built => ListsPositions(probeLog[1].zones, probe.readings,
                            Above(probe.readings, probe.threshold))

C4_Witness ==
    /\ Built
    /\ \E i, j, k \in 1..Len(probe.readings) :
          /\ i < j /\ j < k
          /\ probe.readings[i].risk > probe.threshold
          /\ probe.readings[j].risk = probe.threshold
          /\ probe.readings[k].risk > probe.threshold
    /\ Len(probeLog[1].zones) = 2

\* C5: a score below 0 is classified as 0 is, a score above 100 as 100 is, by
\* the riskLevel of AvalancheView.tsx and by getRiskColor.
C5_OutOfRange ==
    /\ (Built /\ probe.view = "AvalancheView.tsx" /\ Len(probe.readings) = 1) =>
          LET score == probe.readings[1].risk
              level == probeLog[1].riskLevel
          IN  /\ score < 0 => level = RiskLevelOf(0)
              /\ score > 100 => level = RiskLevelOf(100)
    /\ \A i \in 1..Len(probeColors) :
          LET score == probe.readings[i].risk
          IN  /\ score < 0 => probeColors[i] = getRiskColor(0)
              /\ score > 100 => probeColors[i] = getRiskColor(100)

C5_Witness ==
    /\ Built /\ probe.view = "AvalancheView.tsx" /\ Len(probe.readings) = 1
    /\ probe.readings[1].risk > 100
    /\ probeLog[1].riskLevel = "Critical"
    /\ probeColors = <<"#ef4444">>

\* C6: for an empty list of readings and any threshold, maxRiskVal is 0 and the
\* affected list is empty.
C6_EmptyReadings ==
    (Built /\ probe.readings = <<>>) =>
       /\ probeLocals[1].maxRiskVal = 0
       /\ probeLocals[1].affectedZones = <<>>

C6_Witness ==
    /\ Built /\ probe.readings = <<>>
    /\ probe.view = "AvalancheView.tsx"
    /\ probeLocals[1].maxRiskVal = 0

\* C7: an entry is built for any readings, threshold and audience; for empty
\* readings, threshold 50 and audience public it has zones = [], riskLevel Low,
\* threshold 50 and audience public.
C7_AlwaysBuilt ==
    /\ ~Built => ENABLED BuildLog
    /\ Built =>
          /\ Len(probeLog) = 1
          /\ probeLog[1].riskLevel \in RiskLevels
          /\ probeLog[1].threshold = probe.threshold
          /\ probeLog[1].audience = probe.audience
          /\ probeLog[1].message = probe.result
    /\ (Built /\ probe.readings = <<>> /\ probe.threshold = 50
              /\ probe.audience = "public") =>
          /\ probeLog[1].zones = <<>>
          /\ probeLog[1].riskLevel = "Low"
          /\ probeLog[1].threshold = 50
          /\ probeLog[1].audience = "public"

C7_Witness ==
    /\ Built /\ probe.readings = <<>> /\ probe.threshold = 50
    /\ probe.audience = "public" /\ probe.view = "AvalancheView.tsx"
    /\ probeLog[1].riskLevel = "Low"

----------------------------------------------------------------------------
(* Properties of the mounted AvalancheView (Spec) *)

\* C2: every logged riskLevel is the classification of the largest risk over
\* ALL sector readings; with threshold 95 no zone is affected and the
\* riskLevel is still Critical.
C2_GlobalMax ==
    \A n \in 1..Len(history) :
       LET e == history[n]
           top == MaxScore(SectorReadings(view))
       IN  /\ e.riskLevel = IF top > 80 THEN "Critical"
                            ELSE IF top > 50 THEN "High" ELSE "Low"
           /\ e.threshold = 95 => (e.zones = <<>> /\ e.riskLevel = "Critical")

C9_DistinctIds ==
    \A m, n \in 1..Len(history) : m # n => history[m].id # history[n].id

\* C10: an entry records the threshold and audience of the moment its analysis
\* was triggered, the ones embedded in the prompt, and its zones are exactly
\* the sectors whose risk exceeds the recorded threshold, whatever the slider
\* and the audience buttons did while the request was in flight.
C10_RecordsTriggerConfig ==
    [][ /\ Len(inflight') > Len(inflight) =>
              LET call == inflight'[Len(inflight')]
              IN  /\ call.prompt.threshold = alertThreshold
                  /\ call.prompt.audience = ToUpperCase(audience)
        /\ Len(history') > Len(history) =>
              \E i \in 1..Len(inflight) :
                 LET call == inflight[i]
                     e == history'[1]
                 IN  /\ inflight' = RemoveAt(inflight, i)
                     /\ e.threshold = call.prompt.threshold
                     /\ ToUpperCase(e.audience) = call.prompt.audience
                     /\ ListsPositions(e.zones, SectorReadings(view),
                                       Above(SectorReadings(view), e.threshold)) ]_vars

C10_Witness ==
    /\ history # <<>>
    /\ ~aiState.loading
    /\ history[1].threshold = 95 /\ alertThreshold = 75
    /\ history[1].audience = "public" /\ audience = "communities"
    /\ history[1].zones = <<>>

\* C11: the audience does not influence the computation: two entries logged
\* from the same readings with the same threshold have the same zones and the
\* same riskLevel, whatever their audiences.
C11_AudienceNotUsed ==
    \A m, n \in 1..Len(history) :
       history[m].threshold = history[n].threshold =>
          /\ history[m].zones = history[n].zones
          /\ history[m].riskLevel = history[n].riskLevel

C11_Witness ==
    /\ Len(history) = 2
    /\ history[1].threshold = history[2].threshold
    /\ history[1].audience = "public"
    /\ history[2].audience = "researchers"
    /\ history[1].zones # <<>>

DeepErrorText == generateDeepThinkingInsight([ok |-> FALSE, text |-> ""])

\* C13: a step in which a request settles with a failure puts the fallback
\* message in the markdown field and leaves the alert history, the threshold
\* and the audience as they were.
C13_FailureLeavesState ==
    [][ (Len(inflight') < Len(inflight) /\ aiState'.markdown = DeepErrorText) =>
           /\ history' = history
           /\ alertThreshold' = alertThreshold
           /\ audience' = audience ]_vars

\* C15: one entry per analysis, added when its request settles: a trigger
\* suspends one call and logs nothing, a settling call logs exactly one entry,
\* and the history changes in no other step.
C15_OneEntryPerAnalysis ==
    [][ /\ Len(inflight') > Len(inflight) =>
              /\ Len(inflight') = Len(inflight) + 1
              /\ history' = history
        /\ Len(inflight') < Len(inflight) =>
              /\ Len(inflight') = Len(inflight) - 1
              /\ Len(history') = Len(history) + 1
        /\ Len(inflight') = Len(inflight) => history' = history ]_vars

C15_Witness ==
    /\ Len(history) = 2
    /\ inflight = <<>>
    /\ history[1].message = DeepErrorText
    /\ history[2].message # DeepErrorText

\* C16: a step in which an analysis completes changes the AI response state
\* and the history and nothing else: the sector readings, the threshold and
\* the audience selection are the same after it as before it.
C16_CompletionFrame ==
    [][ Len(inflight') < Len(inflight) =>
           /\ sectorData' = sectorData
           /\ alertThreshold' = alertThreshold
           /\ audience' = audience
           /\ view' = view
           /\ history' # history
           /\ ~aiState'.loading ]_vars

C16_Witness ==
    /\ Len(history) = 1
    /\ inflight = <<>>
    /\ ~aiState.loading
    /\ sectorData = SectorReadings(view)
    /\ alertThreshold = 95
    /\ audience = "public"
    /\ history[1].threshold = 95

\* C17: the threshold starts at 75 and is always a multiple of 5 in 0..100,
\* the audience starts at researchers and is always one of researchers,
\* communities, public; the threshold and audience of every suspended call
\* and of every logged entry lie in the same sets.
C17_ConfigDomain ==
    /\ alertThreshold = 75
    /\ audience = "researchers"
    /\ [](/\ alertThreshold \in SliderValues
          /\ audience \in Audiences
          /\ \A i \in 1..Len(inflight) :
                /\ inflight[i].alertThreshold \in SliderValues
                /\ inflight[i].audience \in Audiences
          /\ \A n \in 1..Len(history) :
                /\ history[n].threshold \in SliderValues
                /\ history[n].audience \in Audiences)

C17_Witness ==
    /\ alertThreshold = 95
    /\ audience = "communities"
    /\ Len(history) = 2
    /\ history[1].threshold = 95 /\ history[1].audience = "public"
    /\ history[2].threshold = 75 /\ history[2].audience = "researchers"

\* the other AvalancheView implementation of the repository
OtherView(v) == CHOOSE w \in Views : w # v

\* C20: every logged entry has the zones and the riskLevel that the other
\* AvalancheView implementation computes from the same sector data and the
\* same threshold.
C20_SameLog ==
    \A n \in 1..Len(history) :
       LET e == history[n]
           other == NewLog(OtherView(view), sectorData, e.threshold, e.audience,
                           e.message, e.id, e.id)
       IN  /\ e.zones = other.zones
           /\ e.riskLevel = other.riskLevel

====
